---- MODULE Spec2Model ----
(***************************************************************************)
(* Model of jitir.py: the generators (plugins) that project the jitir      *)
(* instruction catalogue into constructors, allocators, the LLVM stub      *)
(* table, the replay dispatcher build_build_inst and the symbol map, the   *)
(* two lwir pipeline invocations that run them, and the execution of the   *)
(* generated dispatcher on a recorded instruction.                         *)
(*                                                                         *)
(* Generated text is modelled structurally: a fragment is a sequence of    *)
(* records, one per emitted statement, in the order the text is emitted.   *)
(* A concatenation of name parts ("jitir" + "_" + "build_add") is the      *)
(* tuple of its parts.                                                     *)
(***************************************************************************)
EXTENDS Integers, Sequences, FiniteSets, TLC

VARIABLES ir, type_subst, ndebug, pc, frags, files, err, rt

vars == <<ir, type_subst, ndebug, pc, frags, files, err, rt>>

\* ------------------------------------------------------------------ bounds

\* Longest synthetic catalogue drawn in Init (the jitir catalogue itself,
\* 27 instructions, is always one of the initial catalogues).
MaxInsts == 2

\* Stored scalar fields of a recorded instruction take values 0..MaxFieldVal
\* (plus the argument's position, so that fields differ).
MaxFieldVal == 1

\* Backend result handles supplied by the caller start at 0..MaxHandle.
MaxHandle == 1

\* ------------------------------------------------- lwir specification model

\* lwir.Type(name): a scalar type token.
Type(name) == [kind |-> "Type", name |-> name]

\* lwir.ValueType(): the token of a value-reference argument.
ValueType == [kind |-> "ValueType", name |-> "Value"]

\* lwir Type.is_value()
is_value(t) == t.kind = "ValueType"

\* lwir.Getter
Getter == [Default |-> "Default", Always |-> "Always"]

\* lwir.Arg(name, type = ValueType(), getter = Getter.Default)
Arg(name, type, getter) == [name |-> name, type |-> type, getter |-> getter]

\* Arg(name) with both defaults.
ArgV(name) == Arg(name, ValueType, Getter.Default)

\* Arg(name, getter = Getter.Always)
ArgA(name) == Arg(name, ValueType, Getter.Always)

\* Arg(name, Type(t))
ArgS(name, t) == Arg(name, Type(t), Getter.Default)

\* lwir.Inst(name, args, type, type_checks); base stays None ("").
Inst(name, args, type, type_checks) ==
  [name |-> name, args |-> args, type |-> type,
   type_checks |-> type_checks, base |-> ""]

\* lwir.IR(insts); inst_base is the catalogue-wide default base class.
IR(insts) == [insts |-> insts, inst_base |-> "Inst"]

\* Inst.format_name(ir): the generated class name, name + "Inst".
format_name(inst, ir_) == <<inst.name, "Inst">>

\* CamelCase -> snake_case of the instruction names used here.
snake_case(name) ==
  CASE name = "Const" -> "const"        [] name = "Freeze" -> "freeze"
    [] name = "Input" -> "input"        [] name = "Output" -> "output"
    [] name = "Select" -> "select"      [] name = "ResizeU" -> "resize_u"
    [] name = "Load" -> "load"          [] name = "Store" -> "store"
    [] name = "AddPtr" -> "add_ptr"     [] name = "AddPtrConst" -> "add_ptr_const"
    [] name = "Add" -> "add"            [] name = "Sub" -> "sub"
    [] name = "Mul" -> "mul"            [] name = "ModS" -> "mod_s"
    [] name = "ModU" -> "mod_u"         [] name = "And" -> "and"
    [] name = "Or" -> "or"              [] name = "Xor" -> "xor"
    [] name = "ShrU" -> "shr_u"         [] name = "ShrS" -> "shr_s"
    [] name = "Shl" -> "shl"            [] name = "Eq" -> "eq"
    [] name = "LtU" -> "lt_u"           [] name = "LtS" -> "lt_s"
    [] name = "Branch" -> "branch"      [] name = "Jump" -> "jump"
    [] name = "Exit" -> "exit"          [] name = "Scale" -> "scale"
    [] name = "Blend" -> "blend"        [] OTHER -> name

\* Inst.format_builder_name(ir): "build_" + snake_case(name).
format_builder_name(inst, ir_) == <<"build_", snake_case(inst.name)>>

\* Inst.format_formal_args(ir): one formal per argument, declaration order.
format_formal_args(inst, ir_) ==
  [j \in 1..Len(inst.args) |->
     [type |-> IF is_value(inst.args[j].type) THEN "Value*"
               ELSE inst.args[j].type.name,
      name |-> inst.args[j].name]]

\* ------------------------------------------------------- the jitir catalogue

\* binop(name, type_checks = None); None is {} and a given list l is {l}.
binop(name, type_checks) ==
  LET tc == IF type_checks = {} THEN <<"is_int(a->type())">>
            ELSE CHOOSE l \in type_checks : TRUE
  IN Inst(name, <<ArgV("a"), ArgV("b")>>, "a->type()",
          <<"a->type() == b->type()">> \o tc)

\* cmp(name, type_checks)
cmp(name, type_checks) ==
  Inst(name, <<ArgV("a"), ArgV("b")>>, "Type::Bool",
       <<"a->type() == b->type()">> \o type_checks)

jitir ==
  IR(<<
    Inst("Const", <<ArgS("type", "Type"), ArgS("value", "uint64_t")>>, "type", <<>>),
    Inst("Freeze", <<ArgV("a")>>, "a->type()", <<>>),
    Inst("Input", <<ArgS("id", "size_t"), ArgS("type", "Type"),
                    ArgS("flags", "InputFlags")>>, "type", <<>>),
    Inst("Output", <<ArgV("value"), ArgS("id", "size_t")>>, "Type::Void", <<>>),
    Inst("Select", <<ArgA("cond"), ArgV("a"), ArgV("b")>>, "a->type()",
         <<"cond->type() == Type::Bool", "a->type() == b->type()">>),
    Inst("ResizeU", <<ArgV("a"), ArgS("type", "Type")>>, "type",
         <<"is_int_or_bool(a->type())", "is_int_or_bool(type)">>),
    Inst("Load", <<ArgA("ptr"), ArgS("type", "Type"), ArgS("flags", "LoadFlags"),
                   ArgS("aliasing", "AliasingGroup"), ArgS("offset", "uint64_t")>>,
         "type", <<"ptr->type() == Type::Ptr">>),
    Inst("Store", <<ArgA("ptr"), ArgA("value"), ArgS("aliasing", "AliasingGroup"),
                    ArgS("offset", "uint64_t")>>,
         "Type::Void", <<"ptr->type() == Type::Ptr">>),
    Inst("AddPtr", <<ArgA("ptr"), ArgA("offset")>>, "Type::Ptr",
         <<"ptr->type() == Type::Ptr", "offset->type() == Type::Int64">>),
    Inst("AddPtrConst", <<ArgA("ptr"), ArgS("offset", "uint64_t")>>, "Type::Ptr",
         <<"ptr->type() == Type::Ptr">>),
    binop("Add", {}),
    binop("Sub", {}),
    binop("Mul", {}),
    binop("ModS", {}),
    binop("ModU", {}),
    binop("And", {<<"is_int_or_bool(a->type())">>}),
    binop("Or", {<<"is_int_or_bool(a->type())">>}),
    binop("Xor", {<<"is_int_or_bool(a->type())">>}),
    binop("ShrU", {}),
    binop("ShrS", {}),
    binop("Shl", {}),
    cmp("Eq", <<>>),
    cmp("LtU", <<"is_int(a->type())">>),
    cmp("LtS", <<"is_int(a->type())">>),
    Inst("Branch", <<ArgA("cond"), ArgS("true_block", "Block*"),
                     ArgS("false_block", "Block*")>>,
         "Type::Void", <<"cond->type() == Type::Bool">>),
    Inst("Jump", <<ArgS("block", "Block*")>>, "Type::Void", <<>>),
    Inst("Exit", <<>>, "Type::Void", <<>>)
  >>)

\* llvm_type_substitutions
PointerTy == "llvm::PointerType::get(context, 0)"
Int64Ty == "llvm::Type::getInt64Ty(context)"
Int32Ty == "llvm::Type::getInt32Ty(context)"

llvm_type_substitutions ==
  (Type("size_t") :> Int64Ty) @@ (Type("uint64_t") :> Int64Ty) @@
  (Type("Type") :> Int32Ty) @@ (Type("LoadFlags") :> Int32Ty) @@
  (Type("InputFlags") :> Int32Ty) @@ (Type("Block*") :> PointerTy) @@
  (Type("AliasingGroup") :> Int32Ty) @@ (ValueType :> PointerTy)

\* prefix = "jitir" of LLVMAPIPlugin and of MapSymbolsInstPlugin
llvmapi_prefix == "jitir"
map_symbols_prefix == "jitir"

\* ------------------------------------------------------------- helpers

\* The value-reference arguments / the scalar arguments of inst, in
\* declaration order (the "if arg.type.is_value()" filters of the loops).
ValueArgs(inst) == SelectSeq(inst.args, LAMBDA a : is_value(a.type))
ScalarArgs(inst) == SelectSeq(inst.args, LAMBDA a : ~is_value(a.type))

\* Number of value-reference arguments among the first n arguments: the
\* value of a loop counter incremented once per value-reference argument.
RECURSIVE CountValues(_, _)
CountValues(args, n) ==
  IF n = 0 THEN 0
  ELSE CountValues(args, n - 1) + (IF is_value(args[n].type) THEN 1 ELSE 0)

RECURSIVE Concat(_)
Concat(seqs) == IF seqs = <<>> THEN <<>> ELSE Head(seqs) \o Concat(Tail(seqs))

\* Python dict subscript table[key] over a sequence of keys looked up in
\* order: 0 if every key resolves, else the position of the first
\* KeyError.
FirstKeyError(keys, table) ==
  LET bad == {k \in 1..Len(keys) : keys[k] \notin DOMAIN table}
  IN IF bad = {} THEN 0 ELSE CHOOSE k \in bad : \A l \in bad : k <= l

\* An uncaught KeyError: its only argument is the missing key.
KeyError(key) == [type |-> "KeyError", key |-> key]

NoFrags == [n \in {} |-> <<>>]
Returned(fr) == [raised |-> FALSE, exc |-> KeyError(ValueType), frags |-> fr]
Raised(exc) == [raised |-> TRUE, exc |-> exc, frags |-> NoFrags]

\* ------------------------------------------------------------ generators

\* arg_types with the is_value() filter of the dispatcher's loop applied: a
\* stub that takes parameters for the scalar arguments only.
arg_types_scalars_only(inst, type_substitutions) ==
  <<PointerTy>> \o
  [j \in 1..Len(ScalarArgs(inst)) |-> type_substitutions[ScalarArgs(inst)[j].type]]

\* LLVMAPIPlugin.run, the arg_types list of one stub: the builder pointer,
\* then the table entry of every argument's type token.
arg_types(inst, type_substitutions) ==
  <<PointerTy>> \o
  [j \in 1..Len(inst.args) |-> type_substitutions[inst.args[j].type]]

\* LLVMAPIPlugin.run: fragments llvmapi_defs and llvmapi_inits.
LLVMAPIPlugin_run(ir_, prefix, type_substitutions) ==
  LET defs == [i \in 1..Len(ir_.insts) |->
                 [callee |-> format_builder_name(ir_.insts[i], ir_)]]
      keys == Concat([i \in 1..Len(ir_.insts) |->
                 [j \in 1..Len(ir_.insts[i].args) |-> ir_.insts[i].args[j].type]])
      miss == FirstKeyError(keys, type_substitutions)
      inits == [i \in 1..Len(ir_.insts) |->
                 LET inst == ir_.insts[i] IN
                 [slot |-> format_builder_name(inst, ir_),
                  symbol |-> <<prefix, "_", format_builder_name(inst, ir_)>>,
                  result |-> PointerTy,
                  params |-> arg_types(inst, type_substitutions),
                  vararg |-> FALSE]]
  IN IF miss # 0 THEN Raised(KeyError(keys[miss]))
     ELSE Returned(("llvmapi_defs" :> defs) @@ ("llvmapi_inits" :> inits))

\* A dispatcher branch that calls through the slot named after the class
\* (format_name) instead of the builder (format_builder_name).
branch_calls_class_name(inst, ir_, type_substitutions) ==
  LET sc == ScalarArgs(inst)
  IN [cast |-> format_name(inst, ir_),
      insert_begin |-> "jitir_builder",
      push_back |-> [j \in 1..Len(sc) |->
         [type |-> type_substitutions[sc[j].type], getter |-> sc[j].name]],
      assert_size |-> Len(inst.args) + 1,
      callee |-> format_name(inst, ir_)]

\* BuildBuildInstPlugin.run, the branch emitted for one instruction: the
\* checked downcast, the builder inserted in front of args, one constant
\* pushed per scalar argument, the size assertion, the call.
branch(inst, ir_, type_substitutions) ==
  LET sc == ScalarArgs(inst)
  IN [cast |-> format_name(inst, ir_),
      insert_begin |-> "jitir_builder",
      push_back |-> [j \in 1..Len(sc) |->
         [type |-> type_substitutions[sc[j].type], getter |-> sc[j].name]],
      assert_size |-> Len(inst.args) + 1,
      callee |-> format_builder_name(inst, ir_)]

\* BuildBuildInstPlugin.run: fragment build_build_inst, the dispatcher. One
\* branch per instruction, then the "Unknown instruction" tail.
BuildBuildInstPlugin_run(ir_, type_substitutions) ==
  LET keys == Concat([i \in 1..Len(ir_.insts) |->
                 [j \in 1..Len(ScalarArgs(ir_.insts[i])) |->
                    ScalarArgs(ir_.insts[i])[j].type]])
      miss == FirstKeyError(keys, type_substitutions)
  IN IF miss # 0 THEN Raised(KeyError(keys[miss]))
     ELSE Returned("build_build_inst" :>
            [branches |-> [i \in 1..Len(ir_.insts) |->
                             branch(ir_.insts[i], ir_, type_substitutions)],
             tail |-> [assert_false |-> "Unknown instruction", return |-> "nullptr"]])

\* A registrar that spells the symbol with the class name.
MapSymbolsInstPlugin_run_class_name(ir_, prefix) ==
  Returned("map_symbols" :>
    [i \in 1..Len(ir_.insts) |->
       [map_symbol |-> <<prefix, "_", format_name(ir_.insts[i], ir_)>>]])

\* MapSymbolsInstPlugin.run: fragment map_symbols.
MapSymbolsInstPlugin_run(ir_, prefix) ==
  Returned("map_symbols" :>
    [i \in 1..Len(ir_.insts) |->
       [map_symbol |-> <<prefix, "_", format_builder_name(ir_.insts[i], ir_)>>]])

\* An allocator that leaves out the value-reference arguments whose getter
\* policy is Getter.Always.
allocator_skips_always(inst, ir_) ==
  LET name == format_name(inst, ir_)
      arg_count == Cardinality({j \in 1..Len(inst.args) :
                      /\ is_value(inst.args[j].type)
                      /\ inst.args[j].getter # Getter.Always})
  IN [cast |-> name,
      size |-> [header |-> <<"sizeof", name>>,
                slot |-> <<"sizeof", "Value*">>,
                count |-> arg_count],
      align |-> <<"alignof", name>>]

\* AllocatorBuilderPlugin.allocator: the allocation expression of inst.
allocator(inst, ir_) ==
  LET name == format_name(inst, ir_)
      arg_count == CountValues(inst.args, Len(inst.args))
  IN [cast |-> name,
      size |-> [header |-> <<"sizeof", name>>,
                slot |-> <<"sizeof", "Value*">>,
                count |-> arg_count],
      align |-> <<"alignof", name>>]

\* The loop with the slot counter advanced by every argument, scalar or not.
RECURSIVE ctor_loop_counts_all(_, _)
ctor_loop_counts_all(args, n) ==
  IF n = 0 THEN [init_list |-> <<>>, arg_init |-> <<>>, arg_count |-> 0]
  ELSE LET st == ctor_loop_counts_all(args, n - 1)
           arg == args[n]
       IN IF arg.type.kind = "ValueType"
          THEN [st EXCEPT !.arg_init = Append(@, [index |-> st.arg_count,
                                                  name |-> arg.name]),
                          !.arg_count = @ + 1]
          ELSE [st EXCEPT !.init_list = Append(@, [kind |-> "field",
                                                   field |-> <<"_", arg.name>>,
                                                   value |-> arg.name]),
                          !.arg_count = @ + 1]

\* InstTrailingConstructorPlugin.run, the loop over inst.args: the state
\* (init_list, arg_init, arg_count) after the first n arguments.  Every
\* token is a ValueType or a Type, so the "case _" arm is never taken.
RECURSIVE ctor_loop(_, _)
ctor_loop(args, n) ==
  IF n = 0 THEN [init_list |-> <<>>, arg_init |-> <<>>, arg_count |-> 0]
  ELSE LET st == ctor_loop(args, n - 1)
           arg == args[n]
       IN IF arg.type.kind = "ValueType"
          THEN [st EXCEPT !.arg_init = Append(@, [index |-> st.arg_count,
                                                  name |-> arg.name]),
                          !.arg_count = @ + 1]
          ELSE [st EXCEPT !.init_list = Append(@, [kind |-> "field",
                                                   field |-> <<"_", arg.name>>,
                                                   value |-> arg.name])]

\* Assert lines emitted last predicate first.
ctor_asserts_reversed(inst) ==
  [c \in 1..Len(inst.type_checks) |->
     [kind |-> "assert",
      expr |-> inst.type_checks[Len(inst.type_checks) + 1 - c]]]

\* InstTrailingConstructorPlugin.run, the assert lines of the body.
ctor_asserts(inst) ==
  [c \in 1..Len(inst.type_checks) |->
     [kind |-> "assert", expr |-> inst.type_checks[c]]]

\* InstTrailingConstructorPlugin.run: the constructor of inst, as emitted
\* lines: the head with its initializer list, one assert line per type
\* check, the closing brace.
InstTrailingConstructorPlugin_run(inst, ir_) ==
  LET name == format_name(inst, ir_)
      base == IF inst.base # "" THEN inst.base ELSE ir_.inst_base
      st == ctor_loop(inst.args, Len(inst.args))
      base_init == [kind |-> "base", base |-> base, type |-> inst.type,
                    trailing |-> st.arg_count, with |-> st.arg_init]
  IN <<[kind |-> "ctor", name |-> name,
        ctor_args |-> format_formal_args(inst, ir_),
        init_list |-> <<base_init>> \o st.init_list]>>
     \o ctor_asserts(inst)
     \o <<[kind |-> "close"]>>

\* ------------------------------------------- the generated dispatcher

\* A recorded instruction of variant v whose j-th argument, if scalar,
\* stores the field value fv + j.
RecordedInst(v, ir_, fv) ==
  [cls |-> format_name(v, ir_),
   fields |-> [n \in {v.args[j].name : j \in {k \in 1..Len(v.args) : ~is_value(v.args[k].type)}} |->
                 fv + (CHOOSE j \in 1..Len(v.args) : v.args[j].name = n)]]

\* dynamic_cast<target*>(inst): the generated instruction classes derive
\* from the base alone, never from one another.
dynamic_cast(target, inst) == inst.cls = target

\* Operands of a backend call.
BuilderOperand == [op |-> "builder", type |-> "", val |-> 0]
HandleOperand(h) == [op |-> "handle", type |-> "", val |-> h]
ConstantInt(type, val) == [op |-> "const", type |-> type, val |-> val]

NoRun == [active |-> FALSE, variant |-> Inst("", <<>>, "", <<>>), fv |-> 0,
          args |-> <<>>, branch |-> 0, calls |-> <<>>,
          result |-> [kind |-> "none", call |-> 0], halted |-> FALSE]

\* Execution of the emitted build_build_inst on the recorded instruction
\* inst with the caller's operand list args.  assert() aborts unless the
\* build defines NDEBUG (nd), in which case it is skipped.
build_build_inst(code, inst, args, nd) ==
  LET hits == {i \in 1..Len(code.branches) : dynamic_cast(code.branches[i].cast, inst)}
  IN IF hits = {}
     THEN \* assert(false && "Unknown instruction"); return nullptr;
          [branch |-> 0, calls |-> <<>>,
           result |-> IF nd THEN [kind |-> "nullptr", call |-> 0]
                      ELSE [kind |-> "none", call |-> 0],
           halted |-> ~nd]
     ELSE LET i == CHOOSE i \in hits : \A k \in hits : i <= k
              b == code.branches[i]
              args2 == <<BuilderOperand>> \o args \o
                       [j \in 1..Len(b.push_back) |->
                          ConstantInt(b.push_back[j].type,
                                      inst.fields[b.push_back[j].getter])]
          IN IF Len(args2) # b.assert_size /\ ~nd
             THEN [branch |-> i, calls |-> <<>>,
                   result |-> [kind |-> "none", call |-> 0], halted |-> TRUE]
             ELSE [branch |-> i,
                   calls |-> <<[callee |-> b.callee, operands |-> args2]>>,
                   result |-> [kind |-> "call", call |-> 1],
                   halted |-> FALSE]

\* --------------------------------------------------------- initial states

\* Two synthetic instructions that declare a scalar before a value-reference.
Scale ==
  Inst("Scale", <<ArgS("factor", "uint64_t"), ArgV("a")>>, "a->type()",
       <<"is_int(a->type())">>)
Blend ==
  Inst("Blend", <<ArgV("a"), ArgS("mode", "Type"), ArgA("b")>>, "a->type()",
       <<"a->type() == b->type()", "is_int(a->type())">>)

\* Instructions the synthetic catalogues are drawn from: Freeze, AddPtr,
\* Add and Exit of jitir, and the two above.
Pool ==
  {jitir.insts[2], jitir.insts[9], jitir.insts[11], jitir.insts[27],
   Scale, Blend}

\* Catalogues: jitir, and every sequence of at most MaxInsts distinctly
\* named Pool instructions.
RECURSIVE DistinctSeqs(_)
DistinctSeqs(n) ==
  IF n = 0 THEN {<<>>}
  ELSE LET shorter == DistinctSeqs(n - 1)
       IN shorter \cup
          {Append(s, i) : s \in {t \in shorter : Len(t) = n - 1},
                          i \in Pool} 

Catalogues ==
  {jitir} \cup
  {IR(s) : s \in {t \in DistinctSeqs(MaxInsts) :
                    /\ Len(t) >= 1
                    /\ \A a, b \in 1..Len(t) : a # b => t[a].name # t[b].name}}

\* Type-substitution tables handed to the llvmapi pipeline: the table of
\* jitir.py, and that table with one entry left out.
Without(table, key) == [k \in DOMAIN table \ {key} |-> table[k]]

Tables ==
  {llvm_type_substitutions,
   Without(llvm_type_substitutions, Type("uint64_t")),
   Without(llvm_type_substitutions, Type("AliasingGroup"))}

\* Every variant a recorded instruction may have: the catalogue's, or one
\* outside it.
Variants == Pool \cup {jitir.insts[i] : i \in 1..Len(jitir.insts)}

NoErr == [raised |-> FALSE, exc |-> KeyError(ValueType), report |-> <<>>]

\* What an uncaught exception reports: the exception's arguments.
Report(exc) == <<[what |-> "token", name |-> exc.key.name]>>

NoFiles == [n \in {} |-> NoFrags]

Init ==
  /\ ir \in Catalogues
  /\ type_subst \in Tables
  /\ ndebug \in BOOLEAN
  /\ pc = "start"
  /\ frags = NoFrags
  /\ files = NoFiles
  /\ err = NoErr
  /\ rt = NoRun

\* ------------------------------------------------------ pipeline actions

\* A plugin's result enters the pipeline: its fragments are merged, or its
\* exception ends the script.
Merge(res, next) ==
  IF res.raised
  THEN /\ pc' = "failed"
       /\ err' = [raised |-> TRUE, exc |-> res.exc, report |-> Report(res.exc)]
       /\ UNCHANGED frags
  ELSE /\ pc' = next
       /\ frags' = res.frags @@ frags
       /\ UNCHANGED err

\* First lwir(...): InstPlugin([InstTrailingConstructorPlugin(), ...]).
RunInstPlugin ==
  /\ pc = "start"
  /\ Merge(Returned("insts" :>
             [i \in 1..Len(ir.insts) |->
                InstTrailingConstructorPlugin_run(ir.insts[i], ir)]),
           "insts_done")
  /\ UNCHANGED <<ir, type_subst, ndebug, files, rt>>

\* First lwir(...): AllocatorBuilderPlugin().
RunAllocatorBuilderPlugin ==
  /\ pc = "insts_done"
  /\ Merge(Returned("builder" :>
             [i \in 1..Len(ir.insts) |-> allocator(ir.insts[i], ir)]),
           "builder_done")
  /\ UNCHANGED <<ir, type_subst, ndebug, files, rt>>

\* First lwir(...): the fragments are rendered into jitir.hpp.
RenderJitir ==
  /\ pc = "builder_done"
  /\ files' = ("jitir.hpp" :> frags) @@ files
  /\ frags' = NoFrags
  /\ pc' = "jitir_written"
  /\ UNCHANGED <<ir, type_subst, ndebug, err, rt>>

\* Second lwir(...): LLVMAPIPlugin(prefix = "jitir", llvm_type_substitutions).
RunLLVMAPIPlugin ==
  /\ pc = "jitir_written"
  /\ Merge(LLVMAPIPlugin_run(ir, llvmapi_prefix, type_subst), "llvmapi_done")
  /\ UNCHANGED <<ir, type_subst, ndebug, files, rt>>

\* Second lwir(...): BuildBuildInstPlugin(llvm_type_substitutions).
RunBuildBuildInstPlugin ==
  /\ pc = "llvmapi_done"
  /\ Merge(BuildBuildInstPlugin_run(ir, type_subst), "build_build_inst_done")
  /\ UNCHANGED <<ir, type_subst, ndebug, files, rt>>

\* Second lwir(...): MapSymbolsInstPlugin(prefix = "jitir").
RunMapSymbolsInstPlugin ==
  /\ pc = "build_build_inst_done"
  /\ Merge(MapSymbolsInstPlugin_run(ir, map_symbols_prefix), "map_symbols_done")
  /\ UNCHANGED <<ir, type_subst, ndebug, files, rt>>

\* Second lwir(...): the fragments are rendered into jitir_llvmapi.hpp.
RenderLlvmapi ==
  /\ pc = "map_symbols_done"
  /\ files' = ("jitir_llvmapi.hpp" :> frags) @@ files
  /\ frags' = NoFrags
  /\ pc' = "done"
  /\ UNCHANGED <<ir, type_subst, ndebug, err, rt>>

\* The generated build_build_inst replays one recorded instruction.  The
\* caller supplies one result handle per value-reference argument of the
\* instruction's variant, in declaration order.  The function keeps nothing
\* between calls (args is passed by value), so one call is followed.
Dispatch ==
  /\ pc = "done"
  /\ ~rt.active
  /\ \E v \in Variants, fv \in 0..MaxFieldVal, h \in 0..MaxHandle :
       LET args == [r \in 1..Len(ValueArgs(v)) |-> HandleOperand(h + r)]
           out == build_build_inst(files["jitir_llvmapi.hpp"]["build_build_inst"],
                                   RecordedInst(v, ir, fv), args, ndebug)
       IN rt' = [active |-> TRUE, variant |-> v, fv |-> fv, args |-> args,
                 branch |-> out.branch, calls |-> out.calls,
                 result |-> out.result, halted |-> out.halted]
  /\ UNCHANGED <<ir, type_subst, ndebug, pc, frags, files, err>>

Next ==
  \/ RunInstPlugin
  \/ RunAllocatorBuilderPlugin
  \/ RenderJitir
  \/ RunLLVMAPIPlugin
  \/ RunBuildBuildInstPlugin
  \/ RunMapSymbolsInstPlugin
  \/ RenderLlvmapi
  \/ Dispatch

Spec == Init /\ [][Next]_vars

\* ------------------------------------------------------------- properties

\* A fragment that has been generated, merged or already rendered.
HasFrag(n) == n \in DOMAIN frags \/ \E f \in DOMAIN files : n \in DOMAIN files[f]
Frag(n) ==
  IF n \in DOMAIN frags THEN frags[n]
  ELSE files[CHOOSE f \in DOMAIN files : n \in DOMAIN files[f]][n]

\* The dispatcher ran on an instruction whose variant is the k-th declared.
Replayed(k) == rt.active /\ k \in 1..Len(ir.insts) /\ ir.insts[k] = rt.variant
ReplayedUnknown == rt.active /\ \A k \in 1..Len(ir.insts) : ir.insts[k] # rt.variant

\* The operand list of the backend call for variant v as the call
\* convention states it: the builder, then one operand per declared
\* argument in declaration order.
DeclaredOperands(v) ==
  <<BuilderOperand>> \o
  [j \in 1..Len(v.args) |->
     IF is_value(v.args[j].type)
     THEN rt.args[CountValues(v.args, j)]
     ELSE ConstantInt(type_subst[v.args[j].type],
                      RecordedInst(v, ir, rt.fv).fields[v.args[j].name])]

\* C1: on a match for variant K the backend call's operand list is the
\* trace-builder handle followed by one operand per declared argument of K
\* in declaration order (1 + number of arguments long), for every catalogue.
C1_OperandsInDeclarationOrder ==
  \A k \in 1..Len(ir.insts) :
    Replayed(k) /\ rt.calls # <<>> =>
      /\ Len(rt.calls[1].operands) = 1 + Len(ir.insts[k].args)
      /\ rt.calls[1].operands = DeclaredOperands(ir.insts[k])

\* C1, the part the code keeps: the operand list is 1 + number of declared
\* arguments long and starts with the trace-builder handle.
C1_OperandCount ==
  \A k \in 1..Len(ir.insts) :
    Replayed(k) /\ rt.calls # <<>> =>
      /\ Len(rt.calls[1].operands) = 1 + Len(ir.insts[k].args)
      /\ rt.calls[1].operands[1] = BuilderOperand

\* C2: the allocation size of every instruction is the header size of its
\* own class plus one Value* slot per value-reference argument, whatever
\* the argument's getter policy; scalars never count.
C2_AllocationSize ==
  HasFrag("builder") =>
    /\ Len(Frag("builder")) = Len(ir.insts)
    /\ \A i \in 1..Len(ir.insts) :
         LET inst == ir.insts[i]
             a == Frag("builder")[i]
         IN /\ a.size.header = <<"sizeof", format_name(inst, ir)>>
            /\ a.size.slot = <<"sizeof", "Value*">>
            /\ a.size.count =
                 Cardinality({j \in 1..Len(inst.args) : inst.args[j].type = ValueType})

NumValues(inst) == Cardinality({j \in 1..Len(inst.args) : inst.args[j].type = ValueType})

C2_Witness ==
  /\ HasFrag("builder")
  /\ \E i \in 1..Len(ir.insts) :
       NumValues(ir.insts[i]) = 0 /\ Len(ir.insts[i].args) > 0
  /\ \E i \in 1..Len(ir.insts) : NumValues(ir.insts[i]) = 1
  /\ \E i \in 1..Len(ir.insts) :
       /\ NumValues(ir.insts[i]) >= 2
       /\ \E j \in 1..Len(ir.insts[i].args) :
            ir.insts[i].args[j].getter = Getter.Always

\* C3: the symbol names the stub table binds to and the symbol names the
\* registrar maps are the same collection: same spelling, same count.
Occurrences(seq, x) == Cardinality({i \in 1..Len(seq) : seq[i] = x})

BridgeSymbols == [i \in 1..Len(Frag("llvmapi_inits")) |-> Frag("llvmapi_inits")[i].symbol]
MappedSymbols == [i \in 1..Len(Frag("map_symbols")) |-> Frag("map_symbols")[i].map_symbol]

C3_SameSymbols ==
  HasFrag("llvmapi_inits") /\ HasFrag("map_symbols") =>
    /\ Len(BridgeSymbols) = Len(MappedSymbols)
    /\ \A i \in 1..Len(BridgeSymbols) :
         Occurrences(MappedSymbols, BridgeSymbols[i]) =
           Occurrences(BridgeSymbols, BridgeSymbols[i])
    /\ \A i \in 1..Len(MappedSymbols) :
         Occurrences(BridgeSymbols, MappedSymbols[i]) =
           Occurrences(MappedSymbols, MappedSymbols[i])
    /\ \A i \in 1..Len(ir.insts) :
         Occurrences(BridgeSymbols,
            <<llvmapi_prefix, "_", format_builder_name(ir.insts[i], ir)>>) = 1

C3_Witness ==
  /\ HasFrag("llvmapi_inits") /\ HasFrag("map_symbols")
  /\ \E i, j \in 1..Len(ir.insts) :
       ir.insts[i].name = "Add" /\ ir.insts[j].name = "AddPtr"
  /\ Len(MappedSymbols) >= 2

\* C4: an instruction of the K-th declared variant takes branch K and no
\* earlier one, issues exactly one backend call, to K's stub, and the
\* call's result handle is returned.
C4_FirstMatchIsK ==
  \A k \in 1..Len(ir.insts) :
    Replayed(k) =>
      /\ rt.branch = k
      /\ Len(rt.calls) = 1
      /\ rt.calls[1].callee = format_builder_name(ir.insts[k], ir)
      /\ rt.calls[1].callee = Frag("llvmapi_inits")[k].slot
      /\ rt.result = [kind |-> "call", call |-> 1]
      /\ ~rt.halted

C4_Witness ==
  /\ Len(ir.insts) >= 2
  /\ Replayed(Len(ir.insts))
  /\ rt.branch = Len(ir.insts)
  /\ Len(rt.calls) = 1

\* C5: an instruction of no declared variant reaches the "unknown
\* instruction" path, no backend call is issued, and the dispatcher halts
\* instead of continuing with a result.
C5_UnknownHalts ==
  ReplayedUnknown =>
    /\ rt.branch = 0
    /\ rt.calls = <<>>
    /\ rt.halted
    /\ rt.result.kind = "none"

\* C5, the part that holds in every build: the unknown path is reached and
\* no backend call is issued.
C5_UnknownIssuesNoCall ==
  ReplayedUnknown => rt.branch = 0 /\ rt.calls = <<>>

\* C6: a type token missing from a consulted table fails the run with an
\* error naming the token and the instruction, before any artifact of the
\* run is written.
OffendingInsts ==
  {ir.insts[i].name : i \in {k \in 1..Len(ir.insts) :
      \E j \in 1..Len(ir.insts[k].args) : ir.insts[k].args[j].type = err.exc.key}}

C6_UnresolvedTokenReported ==
  err.raised =>
    /\ \E r \in 1..Len(err.report) :
         err.report[r].what = "token" /\ err.report[r].name = err.exc.key.name
    /\ \E r \in 1..Len(err.report) :
         err.report[r].what = "inst" /\ err.report[r].name \in OffendingInsts
    /\ files = NoFiles

\* C7: the constructor of every instruction has exactly one assert per
\* declared validity predicate, in declaration order, all after the head
\* whose initializer list sets the fields; none if there are no predicates.
AssertLines(code) == SelectSeq(code, LAMBDA l : l.kind = "assert")

C7_OneAssertPerPredicate ==
  HasFrag("insts") =>
    \A i \in 1..Len(ir.insts) :
      LET code == Frag("insts")[i]
          checks == ir.insts[i].type_checks
      IN /\ Len(AssertLines(code)) = Len(checks)
         /\ \A c \in 1..Len(checks) : AssertLines(code)[c].expr = checks[c]
         /\ code[1].kind = "ctor"
         /\ Len(code[1].init_list) = 1 + Len(ScalarArgs(ir.insts[i]))
         /\ \A l \in 2..Len(code) : code[l].kind # "ctor"
         /\ checks = <<>> => \A l \in 1..Len(code) : code[l].kind # "assert"

C7_Witness ==
  /\ HasFrag("insts")
  /\ \E i \in 1..Len(ir.insts) : ir.insts[i].type_checks = <<>>
  /\ \E i \in 1..Len(ir.insts) :
       /\ Len(ir.insts[i].type_checks) >= 2
       /\ Len(AssertLines(Frag("insts")[i])) >= 2

\* C8: the stub table has one entry per instruction in catalogue order, and
\* each stub takes the builder handle and then one parameter per argument
\* in declaration order, typed by the table entry of the argument's token
\* (an opaque pointer for every value-reference argument).
C8_StubTable ==
  HasFrag("llvmapi_inits") =>
    /\ Len(Frag("llvmapi_defs")) = Len(ir.insts)
    /\ Len(Frag("llvmapi_inits")) = Len(ir.insts)
    /\ \A i \in 1..Len(ir.insts) :
         LET inst == ir.insts[i]
             stub == Frag("llvmapi_inits")[i]
         IN /\ Frag("llvmapi_defs")[i].callee = format_builder_name(inst, ir)
            /\ stub.slot = format_builder_name(inst, ir)
            /\ Len(stub.params) = 1 + Len(inst.args)
            /\ stub.params[1] = PointerTy
            /\ \A j \in 1..Len(inst.args) :
                 /\ stub.params[j + 1] = type_subst[inst.args[j].type]
                 /\ is_value(inst.args[j].type) => stub.params[j + 1] = PointerTy

C8_Witness ==
  /\ HasFrag("llvmapi_inits")
  /\ Len(ir.insts) >= 2
  /\ \E i \in 1..Len(ir.insts) :
       \E j \in 2..Len(ir.insts[i].args) :
         /\ ~is_value(ir.insts[i].args[j - 1].type)
         /\ is_value(ir.insts[i].args[j].type)
         /\ Frag("llvmapi_inits")[i].params[j] = Int64Ty

\* C10: the constructor's trailing span is as long as the slot count the
\* allocator sizes for; the value-reference arguments are bound to the
\* indices 0..k-1 in declaration order, each once, scalars in between
\* taking no index; every scalar is stored into its own field, in order.
C10_TrailingStorageAgrees ==
  HasFrag("insts") /\ HasFrag("builder") =>
    \A i \in 1..Len(ir.insts) :
      LET inst == ir.insts[i]
          head == Frag("insts")[i][1]
          base == head.init_list[1]
          k == Frag("builder")[i].size.count
      IN /\ base.trailing = k
         /\ Len(base.with) = k
         /\ Len(ValueArgs(inst)) = k
         /\ \A r \in 1..k : /\ base.with[r].index = r - 1
                            /\ base.with[r].name = ValueArgs(inst)[r].name
         /\ Len(head.init_list) = 1 + Len(ScalarArgs(inst))
         /\ \A r \in 1..Len(ScalarArgs(inst)) :
              /\ head.init_list[r + 1].field = <<"_", ScalarArgs(inst)[r].name>>
              /\ head.init_list[r + 1].value = ScalarArgs(inst)[r].name

C10_Witness ==
  /\ HasFrag("insts") /\ HasFrag("builder")
  /\ \E i \in 1..Len(ir.insts) :
       \E j \in 2..(Len(ir.insts[i].args) - 1) :
         /\ ~is_value(ir.insts[i].args[j].type)
         /\ is_value(ir.insts[i].args[j - 1].type)
         /\ is_value(ir.insts[i].args[j + 1].type)
         /\ Frag("insts")[i][1].init_list[1].trailing = 2

====
